---- MODULE Spec2Model ----
(***************************************************************************)
(* Model of cmd/webhook-server/main.go: the admission decision function    *)
(* applySecurityDefaults, run step by step by one or more concurrent       *)
(* invocations (one per in-flight HTTP request).                           *)
(*                                                                         *)
(* Strings that the code tests with strings.HasPrefix / TrimPrefix are     *)
(* sequences of tokens (each token a fixed chunk of characters, every      *)
(* string of the model having exactly one tokenisation), so that prefix    *)
(* tests and trimming are computed, not assumed.                           *)
(* A nil slice and an empty slice are both the empty sequence.             *)
(***************************************************************************)
EXTENDS Integers, Sequences, FiniteSets, TLC

VARIABLES podResource, inv, heap, response

vars == <<podResource, inv, heap, response>>

\* ---------------------------------------------------------------- bounds
MaxContainers == 3
NumInv == 2

Slots == 1..NumInv

\* ------------------------------------------------------------- strings
HasPrefix(s, p) == Len(s) >= Len(p) /\ SubSeq(s, 1, Len(p)) = p

TrimPrefix(s, p) == IF HasPrefix(s, p) THEN SubSeq(s, Len(p) + 1, Len(s)) ELSE s

AppKey == <<"aic.4paradigm.com/", "app">>

ComputeunitPrefixShort == <<"aic.4paradigm.com/">>

ComputeunitPrefix == <<"aic.4paradigm.com/", "computeunit/">>

\* Go map read: the zero value "" for a missing key.
Lookup(m, k) == IF k \in DOMAIN m THEN m[k] ELSE ""

MapPut(m, k, v) == [x \in (DOMAIN m) \cup {k} |-> IF x = k THEN v ELSE m[x]]

MapDelete(m, k) == [x \in (DOMAIN m) \ {k} |-> m[x]]

EmptyMap == [x \in {} |-> ""]

\* --------------------------------------------------------------- inputs
PodGVR == [group |-> "", version |-> "v1", resource |-> "pods"]

Resources ==
    { PodGVR,
      [group |-> "apps", version |-> "v1", resource |-> "pods"],
      [group |-> "", version |-> "v1beta1", resource |-> "pods"],
      [group |-> "", version |-> "v1", resource |-> "services"] }

Names == { <<"a">>, <<"b">> }

\* The annotation key that names container n, written out literally.
ComputeunitKey(n) == <<"aic.4paradigm.com/", "computeunit/">> \o n

\* A key that resembles the prefix but lacks its trailing slash.
LookalikeKey == <<"aic.4paradigm.com/", "computeunit">>

AnnKeys == {AppKey, LookalikeKey} \cup {ComputeunitKey(n) : n \in Names}

AnnValues == {"true", "single-core"}

AnnotationMaps == UNION { [D -> AnnValues] : D \in SUBSET AnnKeys }

ContainerLists ==
    UNION { [1..n -> {[name |-> x] : x \in Names}] : n \in 0..MaxContainers }

ZeroPod == [annotations |-> EmptyMap, containers |-> <<>>]

Pods == { [annotations |-> a, containers |-> c] :
            a \in AnnotationMaps, c \in ContainerLists }

\* req.Object.Raw: bytes that either encode a pod or cannot be decoded.
RawObjects == { [decodable |-> TRUE, pod |-> p] : p \in Pods }
              \cup { [decodable |-> FALSE, pod |-> ZeroPod] }

Requests == { [resource |-> r, raw |-> o] : r \in Resources, o \in RawObjects }

ZeroRequest ==
    [resource |-> [group |-> "", version |-> "", resource |-> ""],
     raw |-> [decodable |-> FALSE, pod |-> ZeroPod]]

\* --------------------------------------------------------------- errors
NilError == [nil |-> TRUE, msg |-> <<>>]

NewError(m) == [nil |-> FALSE, msg |-> m]

\* ----------------------------------------------------- invocation state
IdleInv ==
    [pc |-> "idle", req |-> ZeroRequest, decodeAttempted |-> FALSE,
     pod |-> ZeroPod, cuRef |-> 0, pending |-> {}, idx |-> 1,
     computeunitList |-> <<>>, patches |-> <<>>, err |-> NilError]

NoResponse == [status |-> 0, allowed |-> FALSE, message |-> <<>>, patch |-> <<>>]

Return(st, p, e) == [st EXCEPT !.pc = "returned", !.patches = p, !.err = e]

Init ==
    /\ podResource = PodGVR
    /\ inv = [i \in Slots |-> IdleInv]
    /\ heap = [i \in Slots |-> EmptyMap]
    /\ response = [i \in Slots |-> NoResponse]

\* The handler hands a request to the decision function.
Receive(i, req) ==
    /\ inv[i].pc = "idle"
    /\ inv' = [inv EXCEPT ![i] = [IdleInv EXCEPT !.pc = "checkResource", !.req = req]]
    /\ response' = [response EXCEPT ![i] = NoResponse]
    /\ UNCHANGED <<podResource, heap>>

ResourceMatchesKindOnly(req) == req.resource.resource = podResource.resource

ResourceMatches(req) == req.resource = podResource

CheckResource(i) ==
    /\ inv[i].pc = "checkResource"
    /\ inv' = [inv EXCEPT ![i] =
                 IF ResourceMatches(inv[i].req)
                 THEN [inv[i] EXCEPT !.pc = "decode"]
                 ELSE Return(inv[i], <<>>, NilError)]
    /\ UNCHANGED <<podResource, heap, response>>

\* universalDeserializer.Decode(raw, nil, &pod)
Decode(raw) ==
    IF raw.decodable
    THEN [err |-> NilError, pod |-> raw.pod]
    ELSE [err |-> NewError(<<"decode failure">>), pod |-> ZeroPod]

DecodePod(i) ==
    /\ inv[i].pc = "decode"
    /\ LET d == Decode(inv[i].req.raw)
           st == [inv[i] EXCEPT !.decodeAttempted = TRUE]
       IN inv' = [inv EXCEPT ![i] =
                    IF ~d.err.nil
                    THEN Return(st, <<>>,
                                NewError(<<"could not deserialize pod object: ">> \o d.err.msg))
                    ELSE [st EXCEPT !.pc = "checkApp", !.pod = d.pod]]
    /\ UNCHANGED <<podResource, heap, response>>

IsApplicationAnyValue(pod) == AppKey \in DOMAIN pod.annotations

IsApplication(pod) == Lookup(pod.annotations, AppKey) = "true"

CheckApp(i) ==
    /\ inv[i].pc = "checkApp"
    /\ inv' = [inv EXCEPT ![i] =
                 IF ~IsApplication(inv[i].pod)
                 THEN Return(inv[i], <<>>, NilError)
                 ELSE [inv[i] EXCEPT !.pc = "alloc"]]
    /\ UNCHANGED <<podResource, heap, response>>

\* Where the loops stand: the annotation range first, then the containers.
LoopPc(st) ==
    IF st.pending # {} THEN "rangeAnnotations"
    ELSE IF st.idx <= Len(st.pod.containers) THEN "rangeContainers"
    ELSE "checkUnconsumed"

NewMapShared(i) == 1

\* The map is allocated by the invocation itself: a cell of its own.
NewMap(i) == i

AllocLocals(i) ==
    /\ inv[i].pc = "alloc"
    /\ LET ref == NewMap(i)
           st == [inv[i] EXCEPT !.cuRef = ref,
                                !.pending = DOMAIN inv[i].pod.annotations,
                                !.idx = 1,
                                !.patches = <<>>,
                                !.computeunitList = <<>>]
       IN /\ heap' = [heap EXCEPT ![ref] = EmptyMap]
          /\ inv' = [inv EXCEPT ![i] = [st EXCEPT !.pc = LoopPc(st)]]
    /\ UNCHANGED <<podResource, response>>

\* One iteration of `for k, v := range pod.Annotations` on key k.
RangeAnnotationStepBreak(st, m, k) ==
    IF HasPrefix(k, ComputeunitPrefix)
    THEN [st |-> [st EXCEPT !.pending = st.pending \ {k}],
          map |-> MapPut(m, TrimPrefix(k, ComputeunitPrefix), st.pod.annotations[k])]
    ELSE [st |-> [st EXCEPT !.pending = {}], map |-> m]

RangeAnnotationStep(st, m, k) ==
    IF HasPrefix(k, ComputeunitPrefix)
    THEN [st |-> [st EXCEPT !.pending = st.pending \ {k}],
          map |-> MapPut(m, TrimPrefix(k, ComputeunitPrefix), st.pod.annotations[k])]
    ELSE [st |-> [st EXCEPT !.pending = st.pending \ {k}], map |-> m]

\* The map's iteration order is unspecified: any key not yet visited.
RangeAnnotation(i) ==
    /\ inv[i].pc = "rangeAnnotations"
    /\ \E k \in inv[i].pending :
         LET r == RangeAnnotationStep(inv[i], heap[inv[i].cuRef], k)
         IN /\ heap' = [heap EXCEPT ![inv[i].cuRef] = r.map]
            /\ inv' = [inv EXCEPT ![i] = [r.st EXCEPT !.pc = LoopPc(r.st)]]
    /\ UNCHANGED <<podResource, response>>

\* One iteration of `for _, pod := range pod.Spec.Containers`.
RangeContainerStepDeleteFromPod(st, m) ==
    LET name == st.pod.containers[st.idx].name
    IN IF name \in DOMAIN m
       THEN [st |-> [st EXCEPT !.computeunitList = Append(st.computeunitList, m[name]),
                               !.pod.annotations =
                                   MapDelete(st.pod.annotations, ComputeunitPrefix \o name),
                               !.idx = st.idx + 1],
             map |-> MapDelete(m, name)]
       ELSE [st |-> [st EXCEPT !.idx = st.idx + 1], map |-> m]

RangeContainerStepPatch(st, m) ==
    LET name == st.pod.containers[st.idx].name
    IN IF name \in DOMAIN m
       THEN [st |-> [st EXCEPT !.computeunitList = Append(st.computeunitList, m[name]),
                               !.patches = Append(st.patches,
                                   [op |-> "add", path |-> st.idx - 1, value |-> m[name]]),
                               !.idx = st.idx + 1],
             map |-> MapDelete(m, name)]
       ELSE [st |-> [st EXCEPT !.idx = st.idx + 1], map |-> m]

RangeContainerStep(st, m) ==
    LET name == st.pod.containers[st.idx].name
    IN IF name \in DOMAIN m
       THEN [st |-> [st EXCEPT !.computeunitList = Append(st.computeunitList, m[name]),
                               !.idx = st.idx + 1],
             map |-> MapDelete(m, name)]
       ELSE [st |-> [st EXCEPT !.idx = st.idx + 1], map |-> m]

RangeContainer(i) ==
    /\ inv[i].pc = "rangeContainers"
    /\ LET r == RangeContainerStep(inv[i], heap[inv[i].cuRef])
       IN /\ heap' = [heap EXCEPT ![inv[i].cuRef] = r.map]
          /\ inv' = [inv EXCEPT ![i] = [r.st EXCEPT !.pc = LoopPc(r.st)]]
    /\ UNCHANGED <<podResource, response>>

ErrUnexpectedComputeunit == <<"unexpected computeunit">>

\* The tail of the function: the length test and the two returns.
FinishOnlyIfNoneMatched(st, m) ==
    IF Cardinality(DOMAIN m) # 0 /\ Len(st.computeunitList) = 0
    THEN Return(st, <<>>, NewError(ErrUnexpectedComputeunit))
    ELSE Return(st, st.patches, NilError)

FinishNamingEntry(st, m) ==
    IF Cardinality(DOMAIN m) # 0
    THEN Return(st, <<>>,
                NewError(ErrUnexpectedComputeunit \o (CHOOSE n \in DOMAIN m : TRUE)))
    ELSE Return(st, st.patches, NilError)

Finish(st, m) ==
    IF Cardinality(DOMAIN m) # 0
    THEN Return(st, <<>>, NewError(ErrUnexpectedComputeunit))
    ELSE Return(st, st.patches, NilError)

CheckUnconsumed(i) ==
    /\ inv[i].pc = "checkUnconsumed"
    /\ inv' = [inv EXCEPT ![i] = Finish(inv[i], heap[inv[i].cuRef])]
    /\ UNCHANGED <<podResource, heap, response>>

\* The HTTP handler around the decision function (admitFuncHandler): an
\* error returned by the decision function is a denial inside a 200 envelope.
\* Once the response is written the invocation's frame is gone.
BuildResponse(st) ==
    IF ~st.err.nil
    THEN [status |-> 200, allowed |-> FALSE, message |-> st.err.msg, patch |-> <<>>]
    ELSE [status |-> 200, allowed |-> TRUE, message |-> <<>>, patch |-> st.patches]

Respond(i) ==
    /\ inv[i].pc = "returned"
    /\ response' = [response EXCEPT ![i] = BuildResponse(inv[i])]
    /\ inv' = [inv EXCEPT ![i] = IdleInv]
    /\ UNCHANGED <<podResource, heap>>

\* ------------------------------------------------------ specifications
\* One invocation at a time, over every request of the input space.
Next ==
    \/ \E req \in Requests : Receive(1, req)
    \/ CheckResource(1)
    \/ DecodePod(1)
    \/ CheckApp(1)
    \/ AllocLocals(1)
    \/ RangeAnnotation(1)
    \/ RangeContainer(1)
    \/ CheckUnconsumed(1)
    \/ Respond(1)

Spec == Init /\ [][Next]_vars

\* The same request submitted twice, the second time with its containers in
\* any order: the first result is kept while the second call runs.
Reorderings(req) ==
    LET cs == req.raw.pod.containers
        n == Len(cs)
        perms == { f \in [1..n -> 1..n] : \A a, b \in 1..n : a # b => f[a] # f[b] }
    IN { [req EXCEPT !.raw.pod.containers = [j \in 1..n |-> cs[f[j]]]] : f \in perms }

FirstCall ==
    /\ inv[2].pc = "idle"
    /\ \E req \in Requests : Receive(1, req)

SecondCall ==
    /\ inv[1].pc = "returned"
    /\ \E req \in Reorderings(inv[1].req) : Receive(2, req)

NextTwice ==
    \/ FirstCall
    \/ SecondCall
    \/ \E i \in {1, 2} : CheckResource(i)
    \/ \E i \in {1, 2} : DecodePod(i)
    \/ \E i \in {1, 2} : CheckApp(i)
    \/ \E i \in {1, 2} : AllocLocals(i)
    \/ \E i \in {1, 2} : RangeAnnotation(i)
    \/ \E i \in {1, 2} : RangeContainer(i)
    \/ \E i \in {1, 2} : CheckUnconsumed(i)

SpecTwice == Init /\ [][NextTwice]_vars

\* Concurrent invocations, one goroutine per request, any interleaving.
ConcPod(anns, names) ==
    [resource |-> PodGVR,
     raw |-> [decodable |-> TRUE,
              pod |-> [annotations |-> anns,
                       containers |-> [j \in 1..Len(names) |-> [name |-> names[j]]]]]]

ConcRequests ==
    { ConcPod(AppKey :> "true" @@ ComputeunitKey(<<"a">>) :> "single-core",
              << <<"a">> >>),
      ConcPod(AppKey :> "true" @@ ComputeunitKey(<<"b">>) :> "single-core",
              << <<"a">> >>),
      ConcPod(AppKey :> "true" @@ ComputeunitKey(<<"a">>) :> "single-core"
                @@ ComputeunitKey(<<"b">>) :> "true",
              << <<"b">>, <<"a">> >>),
      [resource |-> PodGVR, raw |-> [decodable |-> FALSE, pod |-> ZeroPod]],
      [resource |-> [group |-> "", version |-> "v1", resource |-> "services"],
       raw |-> [decodable |-> FALSE, pod |-> ZeroPod]] }

NextConc ==
    \/ \E i \in Slots : \E req \in ConcRequests : Receive(i, req)
    \/ \E i \in Slots : CheckResource(i)
    \/ \E i \in Slots : DecodePod(i)
    \/ \E i \in Slots : CheckApp(i)
    \/ \E i \in Slots : AllocLocals(i)
    \/ \E i \in Slots : RangeAnnotation(i)
    \/ \E i \in Slots : RangeContainer(i)
    \/ \E i \in Slots : CheckUnconsumed(i)
    \/ \E i \in Slots : Respond(i)

SpecConc == Init /\ [][NextConc]_vars

\* ------------------------------------------------------------ properties
Returned(st) == st.pc = "returned"

Approved(st) == st.err.nil /\ st.patches = <<>>

IsPodRequest(req) == req.resource = PodGVR

\* The request carries a decodable pod whose activation annotation is "true".
Activated(req) ==
    /\ IsPodRequest(req)
    /\ req.raw.decodable
    /\ AppKey \in DOMAIN req.raw.pod.annotations
    /\ req.raw.pod.annotations[AppKey] = "true"

ClaimedNames(pod) == { n \in Names : ComputeunitKey(n) \in DOMAIN pod.annotations }

ContainerNames(pod) == { pod.containers[j].name : j \in 1..Len(pod.containers) }

UnmatchedNames(pod) == ClaimedNames(pod) \ ContainerNames(pod)

\* C1: a request whose resource descriptor differs from the pod descriptor
\* (group "", version "v1", resource "pods") is approved with no patch and no
\* error whatever its raw bytes are, and its raw object is never decoded.
C1_MismatchApproves ==
    \A i \in Slots :
        (inv[i].pc # "idle" /\ ~IsPodRequest(inv[i].req))
            => /\ ~inv[i].decodeAttempted
               /\ Returned(inv[i]) => Approved(inv[i])

C1_Witness ==
    \E i \in Slots :
        /\ Returned(inv[i])
        /\ inv[i].req.resource.resource = "pods"
        /\ ~IsPodRequest(inv[i].req)
        /\ ~inv[i].req.raw.decodable

C3_UnmatchedRejected ==
    [][\A i \in Slots :
          (/\ Returned(inv[i])
           /\ Activated(inv[i].req)
           /\ UnmatchedNames(inv[i].req.raw.pod) # {})
              => /\ ~inv[i].err.nil
                 /\ inv[i].patches = <<>>
                 /\ inv'[i].pc = "idle" =>
                        (~response'[i].allowed /\ response'[i].patch = <<>>)]_vars

C3_Witness ==
    \E i \in Slots :
        /\ Returned(inv[i])
        /\ Activated(inv[i].req)
        /\ UnmatchedNames(inv[i].req.raw.pod) # {}
        /\ inv[i].computeunitList # <<>>
        /\ ~inv[i].err.nil

C5_DecodeFailureIs500 ==
    [][\A i \in Slots :
          (/\ Returned(inv[i])
           /\ IsPodRequest(inv[i].req)
           /\ ~inv[i].req.raw.decodable
           /\ inv'[i].pc = "idle")
              => /\ response'[i].status = 500
                 /\ ~(response'[i].status = 200 /\ ~response'[i].allowed)]_vars

\* C6: two invocations on the same request, or on requests that differ only
\* in the order of the containers, return the same patches and the same
\* error, whatever order the annotation map is iterated in.
SameUpToContainerOrder(r, q) == q \in Reorderings(r)

C6_SameOutcome ==
    \A i, j \in Slots :
        (/\ Returned(inv[i])
         /\ Returned(inv[j])
         /\ SameUpToContainerOrder(inv[i].req, inv[j].req))
            => /\ inv[i].patches = inv[j].patches
               /\ inv[i].err = inv[j].err

C6_Witness ==
    \E i, j \in Slots :
        /\ i # j
        /\ Returned(inv[i])
        /\ Returned(inv[j])
        /\ Activated(inv[i].req)
        /\ inv[i].computeunitList # <<>>
        /\ LookalikeKey \in DOMAIN inv[i].req.raw.pod.annotations
        /\ inv[i].req # inv[j].req
        /\ SameUpToContainerOrder(inv[i].req, inv[j].req)

\* The outcome of an invocation that runs with no other invocation around.
AloneOutcome(req) ==
    IF ~IsPodRequest(req) THEN NilError
    ELSE IF ~req.raw.decodable
         THEN NewError(<<"could not deserialize pod object: ", "decode failure">>)
    ELSE IF ~Activated(req) THEN NilError
    ELSE IF UnmatchedNames(req.raw.pod) # {}
         THEN NewError(<<"unexpected computeunit">>)
    ELSE NilError

InLoops(st) == st.pc \in {"rangeAnnotations", "rangeContainers", "checkUnconsumed"}

\* C7: under any interleaving of concurrent invocations each one returns the
\* outcome it returns when run alone; the pod descriptor is never written,
\* and a step of one invocation leaves every other invocation's locals and
\* working map as they were.
C7_Isolation ==
    /\ [](\A i \in Slots :
            Returned(inv[i]) =>
                /\ inv[i].err = AloneOutcome(inv[i].req)
                /\ inv[i].patches = <<>>)
    /\ [][/\ podResource' = podResource
          /\ \A i, j \in Slots :
                (i # j /\ inv'[i] # inv[i]) =>
                    /\ inv'[j] = inv[j]
                    /\ InLoops(inv[j]) => heap'[inv[j].cuRef] = heap[inv[j].cuRef]]_vars

C7_Witness ==
    \E i, j \in Slots :
        /\ i # j
        /\ Returned(inv[i])
        /\ Activated(inv[i].req)
        /\ ~inv[i].err.nil
        /\ InLoops(inv[j])
        /\ inv[j].req # inv[i].req
        /\ heap[inv[j].cuRef] # EmptyMap

\* Whether the text of a message contains the text of a name.
Mentions(msg, n) ==
    \E k \in 1..(Len(msg) - Len(n) + 1) : SubSeq(msg, k, k + Len(n) - 1) = n

\* C8 (as stated): the denial message of a rejection identifies an unmatched
\* name.
C8_MessageNamesEntry ==
    \A i \in Slots :
        (/\ Returned(inv[i])
         /\ Activated(inv[i].req)
         /\ UnmatchedNames(inv[i].req.raw.pod) # {})
            => \E n \in UnmatchedNames(inv[i].req.raw.pod) : Mentions(inv[i].err.msg, n)

\* C8 (amended): the denial message of such a rejection is the fixed text
\* "unexpected computeunit", whichever names are unmatched.
C8_FixedMessage ==
    \A i \in Slots :
        (/\ Returned(inv[i])
         /\ Activated(inv[i].req)
         /\ UnmatchedNames(inv[i].req.raw.pod) # {})
            => inv[i].err = NewError(<<"unexpected computeunit">>)

C8_Witness ==
    \E i \in Slots :
        /\ Returned(inv[i])
        /\ Activated(inv[i].req)
        /\ UnmatchedNames(inv[i].req.raw.pod) = {<<"b">>}
        /\ inv[i].err = NewError(<<"unexpected computeunit">>)

\* C9: the decision function never modifies the reviewed object: at every
\* point after decoding, the pod's annotations and containers are those of
\* the request; consuming an entry removes it from the working map only.
C9_PodUnchanged ==
    \A i \in Slots :
        (inv[i].decodeAttempted /\ inv[i].req.raw.decodable)
            => inv[i].pod = inv[i].req.raw.pod

C9_Witness ==
    \E i \in Slots :
        /\ Returned(inv[i])
        /\ inv[i].computeunitList # <<>>
        /\ ClaimedNames(inv[i].pod) \ DOMAIN heap[inv[i].cuRef] # {}

====
